---------------------------- MODULE Spec2Model ----------------------------
(***************************************************************************)
(* Calibration / measurement session of RetinaMetadataApp                  *)
(* (src/retina_metadata_gui.py), with the files of the image folder it     *)
(* works on.  One action per Tk callback; every                            *)
(* callback runs to completion on the Tk main loop, so each is one atomic  *)
(* step.                                                                   *)
(*                                                                         *)
(* Numbers.  The program stores the scale and the lengths as floats that   *)
(* are quotients of square roots of integers.  A non-negative float v is   *)
(* represented here by the reduced fraction of v*v, [n |-> .., d |-> ..],  *)
(* so equality of representations is equality of the exact values          *)
(* (floating point rounding is not modelled).                              *)
(***************************************************************************)
EXTENDS Integers, Sequences, FiniteSets, TLC

\* ----- bounds of the model ------------------------------------------------
\* longest ledger explored
MaxLines == 3
\* largest whole-millimetre distance typed in the sessions on the wide image
MaxDistance == 3

\* longest ledger explored in the sessions with the export buttons
MaxSavedLines == 1

\* ----- program constants ---------------------------------------------------
\* tk.Canvas(width=800, height=600): canvas.winfo_width() / winfo_height()
CanvasW == 800
CanvasH == 600
\* DEVICE_PROFILE["assumed_disc_diameter_mm"] = 1.5 = DiscDiameterNum / DiscDiameterDen
DiscDiameterNum == 3
DiscDiameterDen == 2
\* cv2.HoughCircles(minRadius=30, maxRadius=150)
MinRadius == 30
MaxRadius == 150

\* ----- values ---------------------------------------------------------------
\* Python's None, for attributes that otherwise hold a record
None == [none |-> TRUE]
\* Python's None, for attributes that otherwise hold a path
NoPath == "None"

\* The folder the user can pick: file name -> what cv2.imread gives for it.
\* b.png is a file with an image extension that does not decode.
FolderFiles == <<"a.png", "b.png", "c.png">>

\* A second folder, holding one image of 3 x 2 pixels; the sessions on it
\* exercise the arithmetic on segments of squared length 1, 2, 4 and 5.
WideFiles == <<"w.png">>

\* The metadata form as the user completes it for the active file: patient
\* PA for a.png, PB for b.png, PC for c.png, PW for w.png, eye OD, capture
\* date 2025-01-01.  StandardName is the new_name of save_metadata,
\* f"{patient_id}_{eye}_{capture_date without dashes}{suffix}"; for a file that
\* carries it already, parse_filename fills the form with the same fields.
StandardName(f) ==
    IF f \in {"a.png", "PA_OD_20250101.png"} THEN "PA_OD_20250101.png"
    ELSE IF f \in {"b.png", "PB_OD_20250101.png"} THEN "PB_OD_20250101.png"
    ELSE IF f \in {"c.png", "PC_OD_20250101.png"} THEN "PC_OD_20250101.png"
    ELSE "PW_OD_20250101.png"

\* the name under which the folder first held the file: a rename keeps the bytes
Photo(f) ==
    IF f = "PA_OD_20250101.png" THEN "a.png"
    ELSE IF f = "PB_OD_20250101.png" THEN "b.png"
    ELSE IF f = "PC_OD_20250101.png" THEN "c.png"
    ELSE IF f = "PW_OD_20250101.png" THEN "w.png"
    ELSE f

\* sorted(...) of the Path objects of a folder: upper case sorts before lower case
FileOrder ==
    <<"PA_OD_20250101.png", "PB_OD_20250101.png", "PC_OD_20250101.png",
      "PW_OD_20250101.png", "a.png", "b.png", "c.png", "w.png">>

\* the elements of a sequence
Files(seq) == {seq[i] : i \in 1..Len(seq)}

\* image_files of select_folder for a folder that holds the files in names
Listing(names) == SelectSeq(FileOrder, LAMBDA f : f \in names)

\* Path.rename(new_path) in a folder that holds the files in names
Renamed(names, f) == (names \ {f}) \cup {StandardName(f)}

Decodable(f) == Photo(f) \in {"a.png", "c.png", "w.png"}

\* img.shape[1], img.shape[0] of the decoded file
ImgWidth(f) == IF Photo(f) = "a.png" THEN 2 ELSE IF Photo(f) = "w.png" THEN 3 ELSE 1

ImgHeight(f) == IF Photo(f) = "w.png" THEN 2 ELSE 1

\* cv2.imread(path) returns an image: the file is in the folder and decodes
Readable(names, f) == f \in names /\ Decodable(f)

\* the radii the detector reports in the sessions on FolderFiles
DetectedRadii == {MinRadius}

\* what cv2.HoughCircles can return there, as the sequence of the circles'
\* rounded radii: <<>> stands for None (no circle), else circles[1] is the
\* first candidate
DetectedCircles == {<<>>} \cup {<<[r |-> r]>> : r \in DetectedRadii}

\* answers of simpledialog.askfloat: None when cancelled, else a number of
\* millimetres (a negative one, zero and a positive one)
Answers == {None} \cup {[value |-> v] : v \in {-1, 0, 1}}

\* <Button-1> events on the canvas: a click in the left half, one in the
\* right half, and one in the bottom right corner, which is beside every
\* image of FolderFiles
Events == {[x |-> 0, y |-> CanvasH \div 2],
           [x |-> CanvasW - 1, y |-> CanvasH \div 2],
           [x |-> CanvasW - 1, y |-> CanvasH - 1]}

\* what the detector returns in the sessions on the wide image: nothing, one
\* circle of any radius of the search window, or two circles in either order
WideCircles ==
    {<<>>} \cup {<<[r |-> r]>> : r \in MinRadius..MaxRadius}
           \cup {<<[r |-> MinRadius], [r |-> MaxRadius]>>,
                 <<[r |-> MaxRadius], [r |-> MinRadius]>>}

\* the answers to the distance prompt there
WideAnswers == Answers \cup {[value |-> v] : v \in 1..MaxDistance}

\* the clicks there: one on each pixel of the wide image as displayed, and
\* three on the bottom edge of the canvas, below the image
WideEvents == [x : {133, 400, 666}, y : {166, 433, CanvasH - 1}]

\* ----- arithmetic -----------------------------------------------------------
RECURSIVE GCD(_, _)
GCD(a, b) == IF b = 0 THEN a ELSE GCD(b, a % b)

\* reduced fraction n/d, d > 0, n >= 0
Fraction(n, d) == LET g == GCD(n, d) IN [n |-> n \div g, d |-> d \div g]

\* Python int(): truncation toward zero of a / b, b > 0
TruncDiv(a, b) == IF a >= 0 THEN a \div b ELSE -((-a) \div b)

\* dx*dx + dy*dy, the argument of np.sqrt
SquaredPixels(x1, y1, x2, y2) == (x2 - x1) * (x2 - x1) + (y2 - y1) * (y2 - y1)

\* the outcome of a handler that showed no warning or error box
Done == [result |-> "Done"]

VARIABLES
    disk,                   \* the names of the files in the image folder
    folder_path,            \* NoPath until a folder was chosen
    image_listbox,          \* the file names shown in the listbox
    current_image_path,     \* NoPath or the selected file
    current_image_cv,       \* None or [file |-> f]: the decoded buffer
    calibration_px_per_mm,  \* None or the scale (squared, reduced fraction)
    click_points,           \* points collected for manual calibration
    measurement_lines,      \* the ledger: [x1, y1, x2, y2, mm]
    measure_mode,
    measure_start,          \* None or the pending start point
    scale_factor,           \* display scale num/den
    image_offsets,          \* None until display_image ran, else [x, y]
    last                    \* what the last handler ended with: the warning or
                            \* error box it showed, the exception it died with, a
                            \* completed image load, clear or disc detection, or
                            \* nothing of note ("Done")

vars == <<disk, folder_path, image_listbox, current_image_path, current_image_cv,
          calibration_px_per_mm, click_points, measurement_lines, measure_mode,
          measure_start, scale_factor, image_offsets, last>>

\* ----- display_image ---------------------------------------------------------
\* scale_factor = min(canvas_width / img_width, canvas_height / img_height)
DisplayScale(f) ==
    IF CanvasW * ImgHeight(f) <= CanvasH * ImgWidth(f)
    THEN [num |-> CanvasW, den |-> ImgWidth(f)]
    ELSE [num |-> CanvasH, den |-> ImgHeight(f)]

\* ((canvas_width - new_size[0]) // 2, (canvas_height - new_size[1]) // 2)
DisplayOffsets(f) ==
    LET s == DisplayScale(f)
        new_w == TruncDiv(ImgWidth(f) * s.num, s.den)
        new_h == TruncDiv(ImgHeight(f) * s.num, s.den)
    IN [x |-> (CanvasW - new_w) \div 2, y |-> (CanvasH - new_h) \div 2]

\* img_x, img_y of a click
ClickToImage(e) ==
    [x |-> TruncDiv((e.x - image_offsets.x) * scale_factor.den, scale_factor.num),
     y |-> TruncDiv((e.y - image_offsets.y) * scale_factor.den, scale_factor.num)]

OutsideImage(p) ==
    \/ p.x < 0
    \/ p.y < 0
    \/ p.x >= ImgWidth(current_image_cv.file)
    \/ p.y >= ImgHeight(current_image_cv.file)

\* ----- the scale --------------------------------------------------------------
\* Python truthiness of calibration_px_per_mm: None and 0.0 are false
IsCalibrated(cal) == cal # None /\ cal.n # 0

\* the distance test without its "> 0" half
ValidDistanceTruthyOnly(answer) == answer # None /\ answer.value # 0

\* "if real_distance and real_distance > 0"
ValidDistance(answer) == answer # None /\ answer.value # 0 /\ answer.value > 0

\* the manual scale taken from |dx| + |dy| instead of the Euclidean distance
ManualScaleManhattan(p1, p2, answer) ==
    LET dx == IF p2.x >= p1.x THEN p2.x - p1.x ELSE p1.x - p2.x
        dy == IF p2.y >= p1.y THEN p2.y - p1.y ELSE p1.y - p2.y
    IN Fraction((dx + dy) * (dx + dy), answer.value * answer.value)

\* pixel_distance / real_distance
ManualScale(p1, p2, answer) ==
    Fraction(SquaredPixels(p1.x, p1.y, p2.x, p2.y), answer.value * answer.value)

\* (2 * r) / DEVICE_PROFILE["assumed_disc_diameter_mm"]
AutoScale(r) ==
    Fraction((2 * r) * (2 * r) * DiscDiameterDen * DiscDiameterDen,
             DiscDiameterNum * DiscDiameterNum)

\* the scale after complete_manual_calibration
ManualCalibration(cal, p1, p2, answer) ==
    IF ValidDistance(answer) THEN ManualScale(p1, p2, answer) ELSE cal

\* auto_calibrate that calibrates on the largest circle reported
AutoCalibrationLargest(cal, circles) ==
    IF circles # <<>>
    THEN AutoScale(circles[CHOOSE i \in 1..Len(circles) :
                              \A j \in 1..Len(circles) : circles[j].r <= circles[i].r].r)
    ELSE cal

\* auto_calibrate that forgets the scale when it finds no circle
AutoCalibrationClearing(cal, circles) ==
    IF circles # <<>> THEN AutoScale(circles[1].r) ELSE None

\* the scale after auto_calibrate on a loaded image: x, y, r = circles[0]
AutoCalibration(cal, circles) ==
    IF circles # <<>> THEN AutoScale(circles[1].r) ELSE cal

\* the length as pixels * calibration_px_per_mm
MeasureMMMultiplied(start, end, cal) ==
    Fraction(SquaredPixels(start.x, start.y, end.x, end.y) * cal.n, cal.d)

\* mm = pixels / calibration_px_per_mm
MeasureMM(start, end, cal) ==
    Fraction(SquaredPixels(start.x, start.y, end.x, end.y) * cal.d, cal.n)

\* the end click that appends without asking for a scale (a missing scale read as 1 px/mm)
EndMeasurementUngated(lines, start, end, cal) ==
    Append(lines, [x1 |-> start.x, y1 |-> start.y, x2 |-> end.x, y2 |-> end.y,
                   mm |-> IF IsCalibrated(cal) THEN MeasureMM(start, end, cal)
                          ELSE Fraction(SquaredPixels(start.x, start.y, end.x, end.y), 1)])

\* the end click that recomputes every stored length from the scale now in effect
EndMeasurementRescaling(lines, start, end, cal) ==
    IF IsCalibrated(cal)
    THEN LET all == Append(lines, [x1 |-> start.x, y1 |-> start.y,
                                   x2 |-> end.x, y2 |-> end.y,
                                   mm |-> MeasureMM(start, end, cal)])
         IN [i \in 1..Len(all) |->
                [all[i] EXCEPT !.mm = MeasureMM([x |-> all[i].x1, y |-> all[i].y1],
                                                [x |-> all[i].x2, y |-> all[i].y2], cal)]]
    ELSE lines

\* the end click that skips a segment the ledger already holds
EndMeasurementDeduplicating(lines, start, end, cal) ==
    IF IsCalibrated(cal)
    THEN LET m == [x1 |-> start.x, y1 |-> start.y, x2 |-> end.x, y2 |-> end.y,
                   mm |-> MeasureMM(start, end, cal)]
         IN IF \E i \in 1..Len(lines) : lines[i] = m THEN lines ELSE Append(lines, m)
    ELSE lines

\* the end click that stores the segment twice
EndMeasurementDoubled(lines, start, end, cal) ==
    IF IsCalibrated(cal)
    THEN LET m == [x1 |-> start.x, y1 |-> start.y, x2 |-> end.x, y2 |-> end.y,
                   mm |-> MeasureMM(start, end, cal)]
         IN Append(Append(lines, m), m)
    ELSE lines

\* the ledger after the end click of a measurement gesture
EndMeasurement(lines, start, end, cal) ==
    IF IsCalibrated(cal)
    THEN Append(lines, [x1 |-> start.x, y1 |-> start.y, x2 |-> end.x, y2 |-> end.y,
                        mm |-> MeasureMM(start, end, cal)])
    ELSE lines

\* ----- Init: the state after __init__ and setup_ui ---------------------------
Init ==
    /\ disk = Files(FolderFiles)
    /\ folder_path = NoPath
    /\ image_listbox = <<>>
    /\ current_image_path = NoPath
    /\ current_image_cv = None
    /\ calibration_px_per_mm = None
    /\ click_points = <<>>
    /\ measurement_lines = <<>>
    /\ measure_mode = FALSE
    /\ measure_start = None
    /\ scale_factor = [num |-> 1, den |-> 1]
    /\ image_offsets = None
    /\ last = Done

\* ----- on_image_select ---------------------------------------------------------
\* a clear that keeps the ledger
ClearedLedgerKept(lines) == lines

\* clear_measurements: self.measurement_lines = []
ClearedLedger(lines) == <<>>

\* an image load that keeps the scale
LoadedCalibrationKept(cal) == cal

\* on_image_select: self.calibration_px_per_mm = None
LoadedCalibration(cal) == None

\* the handler's body once the listbox has a selection; cv2.imread reads the
\* folder as the step leaves it (save_metadata renames before it gets here)
ImageSelected(filename) ==
    /\ current_image_path' = filename
    /\ IF ~Readable(disk', filename)
       THEN /\ current_image_cv' = None
            /\ last' = [result |-> "DecodeFailure"]
            /\ UNCHANGED <<calibration_px_per_mm, click_points, measurement_lines,
                           measure_mode, measure_start, scale_factor, image_offsets>>
       ELSE /\ current_image_cv' = [file |-> filename]
            /\ scale_factor' = DisplayScale(filename)
            /\ image_offsets' = DisplayOffsets(filename)
            /\ measurement_lines' = ClearedLedger(measurement_lines)
            /\ measure_start' = None
            /\ calibration_px_per_mm' = LoadedCalibration(calibration_px_per_mm)
            /\ last' = [result |-> "Loaded",
                        had_calibration |-> calibration_px_per_mm # None,
                        had_lines |-> measurement_lines # <<>>,
                        had_start |-> measure_start # None]
            /\ UNCHANGED <<click_points, measure_mode>>

\* <<ListboxSelect>>; sel = 0 stands for an event with an empty selection
OnImageSelect(sel) ==
    /\ sel \in 0..Len(image_listbox)
    /\ UNCHANGED disk
    /\ IF sel = 0
       THEN /\ last' = Done
            /\ UNCHANGED <<current_image_path, current_image_cv, calibration_px_per_mm,
                           click_points, measurement_lines, measure_mode, measure_start,
                           scale_factor, image_offsets>>
       ELSE ImageSelected(image_listbox[sel])
    /\ UNCHANGED <<folder_path, image_listbox>>

\* select_folder once a directory was chosen: the listbox shows the folder as
\* the step leaves it, and its first file is selected
FolderSelected ==
    /\ folder_path' = "folder"
    /\ image_listbox' = Listing(disk')
    /\ IF Listing(disk') # <<>>
       THEN ImageSelected(Listing(disk')[1])
       ELSE /\ last' = Done
            /\ UNCHANGED <<current_image_path, current_image_cv, calibration_px_per_mm,
                           click_points, measurement_lines, measure_mode, measure_start,
                           scale_factor, image_offsets>>

\* select_folder; chosen = FALSE when the directory dialog is cancelled
SelectFolder(chosen) ==
    IF ~chosen
    THEN /\ last' = Done
         /\ UNCHANGED <<disk, folder_path, image_listbox, current_image_path, current_image_cv,
                        calibration_px_per_mm, click_points, measurement_lines,
                        measure_mode, measure_start, scale_factor, image_offsets>>
    ELSE /\ UNCHANGED disk
         /\ FolderSelected

\* ----- on_canvas_click ---------------------------------------------------------
\* a manual calibration that empties the ledger along with the click buffer
CompleteManualCalibrationClearing(p1, p2, answer) ==
    /\ calibration_px_per_mm' = ManualCalibration(calibration_px_per_mm, p1, p2, answer)
    /\ last' = IF ValidDistance(answer) THEN Done ELSE [result |-> "InvalidInput"]
    /\ click_points' = <<>>
    /\ measurement_lines' = <<>>
    /\ UNCHANGED <<measure_start, scale_factor, image_offsets>>

\* complete_manual_calibration, entered with the two points collected
CompleteManualCalibration(p1, p2, answer) ==
    /\ calibration_px_per_mm' = ManualCalibration(calibration_px_per_mm, p1, p2, answer)
    /\ last' = IF ValidDistance(answer) THEN Done ELSE [result |-> "InvalidInput"]
    /\ click_points' = <<>>
    /\ UNCHANGED <<measurement_lines, measure_start, scale_factor, image_offsets>>

\* e is the click, answer what the user gives if the distance prompt opens
OnCanvasClick(e, answer) ==
    /\ UNCHANGED <<disk, folder_path, image_listbox, current_image_path, current_image_cv,
                   measure_mode>>
    /\ IF image_offsets = None
       THEN /\ last' = Done
            /\ UNCHANGED <<calibration_px_per_mm, click_points, measurement_lines,
                           measure_start, scale_factor, image_offsets>>
       ELSE IF current_image_cv = None
       THEN \* self.current_image_cv.shape on None: the callback dies with AttributeError
            /\ last' = [result |-> "AttributeError"]
            /\ UNCHANGED <<calibration_px_per_mm, click_points, measurement_lines,
                           measure_start, scale_factor, image_offsets>>
       ELSE IF OutsideImage(ClickToImage(e))
       THEN /\ last' = Done
            /\ UNCHANGED <<calibration_px_per_mm, click_points, measurement_lines,
                           measure_start, scale_factor, image_offsets>>
       ELSE LET p == ClickToImage(e) IN
            IF measure_mode
            THEN IF measure_start = None
                 THEN /\ measure_start' = p
                      /\ last' = Done
                      /\ UNCHANGED <<calibration_px_per_mm, click_points,
                                     measurement_lines, scale_factor, image_offsets>>
                 ELSE /\ IsCalibrated(calibration_px_per_mm)
                            => Len(measurement_lines) < MaxLines
                      /\ measurement_lines' = EndMeasurement(measurement_lines,
                                 measure_start, p, calibration_px_per_mm)
                      /\ last' = IF IsCalibrated(calibration_px_per_mm)
                                 THEN Done ELSE [result |-> "CalibrationRequired"]
                      /\ measure_start' = None
                      /\ scale_factor' = DisplayScale(current_image_cv.file)
                      /\ image_offsets' = DisplayOffsets(current_image_cv.file)
                      /\ UNCHANGED <<calibration_px_per_mm, click_points>>
            ELSE IF Len(click_points) + 1 = 2
                 THEN CompleteManualCalibration(click_points[1], p, answer)
                 ELSE /\ click_points' = Append(click_points, p)
                      /\ last' = Done
                      /\ UNCHANGED <<calibration_px_per_mm, measurement_lines,
                                     measure_start, scale_factor, image_offsets>>

\* ----- auto_calibrate ------------------------------------------------------------
\* circles is what cv2.HoughCircles returns
AutoCalibrate(circles) ==
    /\ IF current_image_cv = None
       THEN /\ last' = [result |-> "NoImageLoaded"]
            /\ UNCHANGED calibration_px_per_mm
       ELSE /\ calibration_px_per_mm' = AutoCalibration(calibration_px_per_mm, circles)
            /\ last' = IF circles # <<>>
                       THEN [result |-> "DiscDetected", circles |-> circles]
                       ELSE [result |-> "NotFound"]
    /\ UNCHANGED <<disk, folder_path, image_listbox, current_image_path, current_image_cv,
                   click_points, measurement_lines, measure_mode, measure_start,
                   scale_factor, image_offsets>>

\* ----- the other tool buttons ----------------------------------------------------
StartManualCalibration ==
    /\ click_points' = <<>>
    /\ last' = Done
    /\ UNCHANGED <<disk, folder_path, image_listbox, current_image_path, current_image_cv,
                   calibration_px_per_mm, measurement_lines, measure_mode,
                   measure_start, scale_factor, image_offsets>>

\* a toggle that leaves the pending start alone when it turns the mode off
ToggleMeasureModeKeepingStart ==
    /\ measure_mode' = ~measure_mode
    /\ last' = Done
    /\ UNCHANGED <<disk, folder_path, image_listbox, current_image_path, current_image_cv,
                   calibration_px_per_mm, click_points, measurement_lines, measure_start,
                   scale_factor, image_offsets>>

\* toggle_measure_mode
ToggleMeasureMode ==
    /\ measure_mode' = ~measure_mode
    /\ measure_start' = IF measure_mode THEN None ELSE measure_start
    /\ last' = Done
    /\ UNCHANGED <<disk, folder_path, image_listbox, current_image_path, current_image_cv,
                   calibration_px_per_mm, click_points, measurement_lines,
                   scale_factor, image_offsets>>

ClearMeasurements ==
    /\ measurement_lines' = ClearedLedger(measurement_lines)
    /\ measure_start' = None
    /\ IF current_image_cv # None
       THEN /\ scale_factor' = DisplayScale(current_image_cv.file)
            /\ image_offsets' = DisplayOffsets(current_image_cv.file)
       ELSE UNCHANGED <<scale_factor, image_offsets>>
    /\ last' = [result |-> "Cleared",
                had_lines |-> measurement_lines # <<>>,
                had_start |-> measure_start # None]
    /\ UNCHANGED <<disk, folder_path, image_listbox, current_image_path, current_image_cv,
                   calibration_px_per_mm, click_points, measure_mode>>

\* ----- the export buttons -----------------------------------------------------------
\* save_metadata; rename is the answer to "Rename file to standard format?",
\* chosen whether a directory is picked in the dialog select_folder then opens.
\* The row get_metadata_from_form builds is appended to the CSV log before the
\* question is asked.
SaveMetadata(rename, chosen) ==
    IF current_image_path = NoPath
    THEN /\ last' = [result |-> "NoImageSelected"]
         /\ UNCHANGED <<disk, folder_path, image_listbox, current_image_path,
                        current_image_cv, calibration_px_per_mm, click_points,
                        measurement_lines, measure_mode, measure_start, scale_factor,
                        image_offsets>>
    ELSE IF ~rename
    THEN /\ last' = [result |-> "MetadataSaved"]
         /\ UNCHANGED <<disk, folder_path, image_listbox, current_image_path,
                        current_image_cv, calibration_px_per_mm, click_points,
                        measurement_lines, measure_mode, measure_start, scale_factor,
                        image_offsets>>
    ELSE IF current_image_path \notin disk
    THEN \* Path.rename of a file that is gone: the callback dies
         /\ last' = [result |-> "FileNotFoundError"]
         /\ UNCHANGED <<disk, folder_path, image_listbox, current_image_path,
                        current_image_cv, calibration_px_per_mm, click_points,
                        measurement_lines, measure_mode, measure_start, scale_factor,
                        image_offsets>>
    ELSE /\ disk' = Renamed(disk, current_image_path)
         /\ IF chosen
            THEN FolderSelected
            ELSE /\ current_image_path' = StandardName(current_image_path)
                 /\ last' = [result |-> "MetadataSaved"]
                 /\ UNCHANGED <<folder_path, image_listbox, current_image_cv,
                                calibration_px_per_mm, click_points, measurement_lines,
                                measure_mode, measure_start, scale_factor, image_offsets>>

\* save_json: returns silently without a selected path
SaveJson ==
    /\ last' = IF current_image_path = NoPath THEN Done ELSE [result |-> "JsonSaved"]
    /\ UNCHANGED <<disk, folder_path, image_listbox, current_image_path, current_image_cv,
                   calibration_px_per_mm, click_points, measurement_lines, measure_mode,
                   measure_start, scale_factor, image_offsets>>

\* the spacing computed whenever a scale is stored, zero or not
PixelSpacingUnguarded(cal) ==
    IF cal = None THEN None
    ELSE IF cal.n = 0 THEN [fault |-> "ZeroDivisionError"]
    ELSE [n |-> cal.d, d |-> cal.n]

\* ds.PixelSpacing: 1.0 / calibration_px_per_mm on both axes under a truthy
\* scale (as the fraction of its square), None when the element is left out
PixelSpacing(cal) == IF IsCalibrated(cal) THEN [n |-> cal.d, d |-> cal.n] ELSE None

\* export_dicom; it reads the file again from current_image_path
ExportDicom ==
    /\ last' = IF current_image_path = NoPath
               THEN [result |-> "NoImageSelected"]
               ELSE IF ~Readable(disk, current_image_path)
               THEN [result |-> "DicomUnreadable"]
               ELSE [result |-> "DicomSaved",
                     spacing |-> PixelSpacing(calibration_px_per_mm)]
    /\ UNCHANGED <<disk, folder_path, image_listbox, current_image_path, current_image_cv,
                   calibration_px_per_mm, click_points, measurement_lines, measure_mode,
                   measure_start, scale_factor, image_offsets>>

\* the distance prompt opens only on the second calibration point
PromptAnswers == IF ~measure_mode /\ Len(click_points) = 1 THEN Answers ELSE {None}

\* ----- the session ------------------------------------------------------------------
\* the user calibrates and measures, and leaves the export buttons alone
Next ==
    \/ \E chosen \in BOOLEAN : SelectFolder(chosen)
    \/ \E sel \in 0..Len(FolderFiles) : OnImageSelect(sel)
    \/ \E e \in Events, answer \in PromptAnswers : OnCanvasClick(e, answer)
    \/ \E circles \in DetectedCircles : AutoCalibrate(circles)
    \/ StartManualCalibration
    \/ ToggleMeasureMode
    \/ ClearMeasurements

Spec == Init /\ [][Next]_vars

\* ----- sessions without manual calibration -------------------------------------------
\* the user never presses "Manual Calibration": click collection is never started
IdleNext ==
    \/ \E chosen \in BOOLEAN : SelectFolder(chosen)
    \/ \E sel \in 0..Len(FolderFiles) : OnImageSelect(sel)
    \/ \E e \in Events, answer \in PromptAnswers : OnCanvasClick(e, answer)
    \/ \E circles \in DetectedCircles : AutoCalibrate(circles)
    \/ ToggleMeasureMode
    \/ ClearMeasurements

IdleSpec == Init /\ [][IdleNext]_vars

\* ----- sessions with the export buttons ------------------------------------------------
\* every button of the window; the ledger stays within MaxSavedLines
SaveNext ==
  /\
    \/ \E chosen \in BOOLEAN : SelectFolder(chosen)
    \/ \E sel \in 0..Len(FolderFiles) : OnImageSelect(sel)
    \/ \E e \in Events, answer \in PromptAnswers : OnCanvasClick(e, answer)
    \/ \E circles \in DetectedCircles : AutoCalibrate(circles)
    \/ StartManualCalibration
    \/ ToggleMeasureMode
    \/ ClearMeasurements
    \/ \E rename \in BOOLEAN, chosen \in BOOLEAN : SaveMetadata(rename, chosen)
    \/ SaveJson
    \/ ExportDicom
  /\ Len(measurement_lines') <= MaxSavedLines

SaveSpec == Init /\ [][SaveNext]_vars

\* ----- sessions on the wide image ---------------------------------------------------
\* the state after select_folder on the folder of WideFiles
WideInit ==
    /\ disk = Files(WideFiles)
    /\ folder_path = "wide"
    /\ image_listbox = WideFiles
    /\ current_image_path = WideFiles[1]
    /\ current_image_cv = [file |-> WideFiles[1]]
    /\ calibration_px_per_mm = None
    /\ click_points = <<>>
    /\ measurement_lines = <<>>
    /\ measure_mode = FALSE
    /\ measure_start = None
    /\ scale_factor = DisplayScale(WideFiles[1])
    /\ image_offsets = DisplayOffsets(WideFiles[1])
    /\ last = [result |-> "Loaded", had_calibration |-> FALSE,
                had_lines |-> FALSE, had_start |-> FALSE]

\* the distance prompt, answered from WideAnswers
WidePromptAnswers ==
    IF ~measure_mode /\ Len(click_points) = 1 THEN WideAnswers ELSE {None}

\* the user calibrates and measures; the session ends with its first measurement
WideNext ==
    /\ measurement_lines = <<>>
    /\ \/ \E e \in WideEvents, answer \in WidePromptAnswers : OnCanvasClick(e, answer)
       \/ \E circles \in WideCircles : AutoCalibrate(circles)
       \/ StartManualCalibration
       \/ ToggleMeasureMode

WideSpec == WideInit /\ [][WideNext]_vars

\* ----- handlers as seen from a step ----------------------------------------------
\* a step in which a selected file was decoded and became the active image
ImageLoaded == last'.result = "Loaded"

\* a step in which the selected file failed to decode
DecodeFailed == last'.result = "DecodeFailure"

\* the click e lands on the loaded image
OnImage(e) ==
    /\ image_offsets # None
    /\ current_image_cv # None
    /\ ~OutsideImage(ClickToImage(e))

\* the step is the click e as second manual calibration point, answered by answer
SecondCalibrationClick(e, answer) ==
    /\ ~measure_mode
    /\ Len(click_points) = 1
    /\ OnImage(e)
    /\ OnCanvasClick(e, answer)

\* the step is the click e ending a measurement gesture
EndClick(e) ==
    /\ measure_mode
    /\ measure_start # None
    /\ OnImage(e)
    /\ OnCanvasClick(e, None)

\* ----- C1 --------------------------------------------------------------------------
\* C1: a successful image load leaves the session uncalibrated, the ledger
\* empty and no measurement start pending, whatever they were before.
C1_LoadResets ==
    [][ImageLoaded => /\ calibration_px_per_mm' = None
                      /\ measurement_lines' = <<>>
                      /\ measure_start' = None]_vars

\* an image was loaded over a calibrated session with a ledger and a pending start
C1_Witness ==
    /\ last.result = "Loaded"
    /\ last.had_calibration
    /\ last.had_lines
    /\ last.had_start

\* ----- C2 --------------------------------------------------------------------------
\* C2: the stored scale is either unset or strictly positive.
C2_ScalePositive == calibration_px_per_mm # None => calibration_px_per_mm.n > 0

\* ----- C3 --------------------------------------------------------------------------
\* C3: manual calibration on two identical points with a distance d > 0 is
\* rejected with InvalidInput and the scale held before is not replaced.
C3_DegenerateRejected ==
    [][\A e \in Events, answer \in Answers :
          (/\ answer # None
           /\ answer.value > 0
           /\ SecondCalibrationClick(e, answer)
           /\ ClickToImage(e) = click_points[1])
             => /\ last'.result = "InvalidInput"
                /\ calibration_px_per_mm' = calibration_px_per_mm]_vars

\* ----- C4 --------------------------------------------------------------------------
\* C4: an end click without a valid scale reports CalibrationRequired and
\* leaves the ledger as it was; the ledger only grows under a strictly
\* positive scale.
C4_CalibrationRequired ==
    [][/\ \A e \in Events :
            (~IsCalibrated(calibration_px_per_mm) /\ EndClick(e))
               => /\ last'.result = "CalibrationRequired"
                  /\ measurement_lines' = measurement_lines
       /\ Len(measurement_lines') > Len(measurement_lines)
            => /\ calibration_px_per_mm # None
               /\ calibration_px_per_mm.n > 0]_vars

\* an end click was refused on a session never calibrated since the load
C4_Witness ==
    /\ last.result = "CalibrationRequired"
    /\ calibration_px_per_mm = None
    /\ measurement_lines = <<>>
    /\ measure_mode

\* ----- C5 --------------------------------------------------------------------------
\* C5: every failing call (no circle found, invalid distance or degenerate
\* points in manual calibration, end click without a scale) leaves the scale,
\* the ledger and the pending start as they were.
C5_FailureLeavesState ==
    [][(\/ last'.result \in {"NotFound", "InvalidInput", "CalibrationRequired"}
        \/ \E e \in Events, answer \in Answers :
              /\ SecondCalibrationClick(e, answer)
              /\ ClickToImage(e) = click_points[1])
          => UNCHANGED <<calibration_px_per_mm, measurement_lines, measure_start>>]_vars

\* ----- C6 --------------------------------------------------------------------------
\* C6: selecting a file that does not decode changes neither the image buffer,
\* the image path, the scale, the ledger nor the pending start.
C6_DecodeFailureNoMutation ==
    [][DecodeFailed => UNCHANGED <<current_image_cv, current_image_path,
                                   calibration_px_per_mm, measurement_lines,
                                   measure_start>>]_vars

\* ----- C7 --------------------------------------------------------------------------
\* C7: the scale and the ledger belong to the image named by
\* current_image_path: whenever that path changes, failed decode included,
\* the session continues uncalibrated with an empty ledger.
C7_ImageScoped ==
    [][current_image_path' # current_image_path
          => /\ calibration_px_per_mm' = None
             /\ measurement_lines' = <<>>]_vars

\* ----- C8 --------------------------------------------------------------------------
\* C8: manual calibration with a distance <= 0 or a cancelled prompt reports
\* InvalidInput and leaves the scale unchanged.
C8_InvalidDistanceRejected ==
    [][\A e \in Events, answer \in Answers :
          ((answer = None \/ answer.value <= 0) /\ SecondCalibrationClick(e, answer))
             => /\ last'.result = "InvalidInput"
                /\ calibration_px_per_mm' = calibration_px_per_mm]_vars

\* a distance was refused and the valid scale set earlier is still in effect
C8_Witness ==
    /\ last.result = "InvalidInput"
    /\ IsCalibrated(calibration_px_per_mm)

\* ----- C9 --------------------------------------------------------------------------
\* C9: a stored measurement never changes: a step leaves the ledger alone,
\* appends one entry behind the unchanged ones, or empties it, and it is
\* emptied only by clear_measurements or an image load.
C9_Snapshot ==
    [][\/ measurement_lines' = measurement_lines
       \/ /\ Len(measurement_lines') = Len(measurement_lines) + 1
          /\ SubSeq(measurement_lines', 1, Len(measurement_lines)) = measurement_lines
       \/ /\ measurement_lines' = <<>>
          /\ ClearMeasurements \/ ImageLoaded]_vars

\* the ledger holds a length taken under a scale other than the one now in effect
C9_Witness ==
    /\ IsCalibrated(calibration_px_per_mm)
    /\ \E i \in 1..Len(measurement_lines) :
          LET m == measurement_lines[i] IN
          /\ m.mm.n # 0
          /\ m.mm # MeasureMM([x |-> m.x1, y |-> m.y1], [x |-> m.x2, y |-> m.y2],
                              calibration_px_per_mm)

\* ----- C10 -------------------------------------------------------------------------
\* C10: every successful measurement is appended behind the entries already
\* in the ledger, which keep their order, also when an entry with the same
\* endpoints is already there.
C10_CreationOrder ==
    [][\A e \in Events :
          (IsCalibrated(calibration_px_per_mm) /\ EndClick(e))
             => /\ Len(measurement_lines') = Len(measurement_lines) + 1
                /\ SubSeq(measurement_lines', 1, Len(measurement_lines))
                      = measurement_lines
                /\ LET m == measurement_lines'[Len(measurement_lines')] IN
                   /\ [x |-> m.x1, y |-> m.y1] = measure_start
                   /\ [x |-> m.x2, y |-> m.y2] = ClickToImage(e)]_vars

\* three measurements in the ledger, the first and the third on the same
\* endpoints, the second on other ones
C10_Witness ==
    /\ Len(measurement_lines) = 3
    /\ measurement_lines[1] = measurement_lines[3]
    /\ measurement_lines[2] # measurement_lines[1]

\* ----- C11 -------------------------------------------------------------------------
\* C11: a manual calibration on two different points a, b of the image with
\* a distance d > 0 sets the scale to euclidean(a, b) / d, which is strictly
\* positive (stated on the squares: scale^2 * d^2 = dx^2 + dy^2).
C11_ManualScale ==
    [][(~measure_mode /\ Len(click_points) = 1 /\ click_points' = <<>>)
          => \A e \in WideEvents, answer \in WideAnswers :
                (/\ answer # None
                 /\ answer.value > 0
                 /\ OnImage(e)
                 /\ ClickToImage(e) # click_points[1]
                 /\ OnCanvasClick(e, answer))
                   => LET a == click_points[1]
                          b == ClickToImage(e)
                          scale == calibration_px_per_mm'
                      IN /\ scale # None
                         /\ scale.n * answer.value * answer.value
                               = ((b.x - a.x) * (b.x - a.x) + (b.y - a.y) * (b.y - a.y))
                                 * scale.d
                         /\ scale.n > 0
                         /\ scale.d > 0]_vars

\* the scale is sqrt(5) / 2 px/mm: set on two points a knight's move apart, 2 mm
C11_Witness ==
    /\ calibration_px_per_mm = [n |-> 5, d |-> 4]
    /\ click_points = <<>>
    /\ last = Done

\* ----- C12 -------------------------------------------------------------------------
\* C12: under a valid scale s an end click q after the pending start p appends
\* exactly one measurement with endpoints (p, q) and length euclidean(p, q) / s
\* and clears the pending start; with s = 10 the segment (0,0)-(30,40) is 5 mm.
C12_MeasureLength ==
    [][/\ (measure_mode /\ measure_start # None /\ measure_start' = None
                        /\ IsCalibrated(calibration_px_per_mm))
          => \A e \in WideEvents :
                (OnImage(e) /\ OnCanvasClick(e, None))
                   => LET p == measure_start
                          q == ClickToImage(e)
                          s == calibration_px_per_mm
                          m == measurement_lines'[Len(measurement_lines')]
                      IN /\ Len(measurement_lines') = Len(measurement_lines) + 1
                         /\ SubSeq(measurement_lines', 1, Len(measurement_lines))
                               = measurement_lines
                         /\ <<m.x1, m.y1, m.x2, m.y2>> = <<p.x, p.y, q.x, q.y>>
                         /\ m.mm.n * s.n
                               = ((q.x - p.x) * (q.x - p.x) + (q.y - p.y) * (q.y - p.y))
                                 * s.d * m.mm.d
                         /\ m.mm.d > 0
       /\ MeasureMM([x |-> 0, y |-> 0], [x |-> 30, y |-> 40], [n |-> 100, d |-> 1])
             = [n |-> 25, d |-> 1]]_vars

\* (0,0)-(2,1), sqrt(5) pixels, measured under 40 px/mm: mm^2 = 5 / 1600
C12_Witness ==
    /\ Len(measurement_lines) = 1
    /\ measurement_lines[1] = [x1 |-> 0, y1 |-> 0, x2 |-> 2, y2 |-> 1,
                               mm |-> [n |-> 1, d |-> 320]]
    /\ measure_start = None
    /\ calibration_px_per_mm = [n |-> 1600, d |-> 1]

\* ----- C13 -------------------------------------------------------------------------
\* C13: after clear_measurements the ledger is empty and no start is
\* pending, whatever they were before.
C13_ClearDiscards ==
    [][last'.result = "Cleared" => /\ measurement_lines' = <<>>
                                   /\ measure_start' = None]_vars

\* a clear that found measurements in the ledger and a pending start
C13_Witness ==
    /\ last.result = "Cleared"
    /\ last.had_lines
    /\ last.had_start

\* ----- C14 -------------------------------------------------------------------------
\* C14: cancelling the distance prompt, switching to measure mode or loading
\* an image leaves the calibration click buffer empty.
C14_CancelDiscardsBuffer ==
    [][(\/ ToggleMeasureMode /\ ~measure_mode
        \/ ImageLoaded
        \/ \E e \in Events : SecondCalibrationClick(e, None))
          => click_points' = <<>>]_vars

\* ----- C15 -------------------------------------------------------------------------
\* C15: while click collection was never started, a canvas click outside
\* measure mode adds nothing to the click buffer and does not change the scale.
C15_IdleClicksIgnored ==
    [][~measure_mode
          => \A e \in Events, answer \in Answers :
                OnCanvasClick(e, answer)
                   => /\ click_points' = click_points
                      /\ calibration_px_per_mm' = calibration_px_per_mm]_vars

\* ----- C16 -------------------------------------------------------------------------
\* C16: no handler ends in an unhandled exception: a canvas click is processed
\* or ignored in every reachable state.
C16_NoFault == last.result # "AttributeError"

\* ----- C17 -------------------------------------------------------------------------
\* C17: every point the session holds (click buffer, pending start, ledger
\* endpoints) lies inside the image now loaded.
C17_PointsInBounds ==
    current_image_cv # None
       => LET Inside(x, y) == /\ 0 <= x
                              /\ x < ImgWidth(current_image_cv.file)
                              /\ 0 <= y
                              /\ y < ImgHeight(current_image_cv.file)
          IN /\ \A i \in 1..Len(click_points) :
                   Inside(click_points[i].x, click_points[i].y)
             /\ measure_start # None => Inside(measure_start.x, measure_start.y)
             /\ \A i \in 1..Len(measurement_lines) :
                   /\ Inside(measurement_lines[i].x1, measurement_lines[i].y1)
                   /\ Inside(measurement_lines[i].x2, measurement_lines[i].y2)

\* ----- C18 -------------------------------------------------------------------------
\* C18: when the detector reports circles, auto_calibrate sets the scale to
\* (2 * r) / assumed_disc_diameter_mm for the radius r of the first circle
\* reported, and that scale is strictly positive (stated on the squares).
C18_AutoScaleFirstCircle ==
    [][last'.result = "DiscDetected"
          => LET r == last'.circles[1].r
                 scale == calibration_px_per_mm'
             IN /\ scale # None
                /\ scale.n * DiscDiameterNum * DiscDiameterNum
                      = (2 * r) * (2 * r) * DiscDiameterDen * DiscDiameterDen * scale.d
                /\ scale.n > 0
                /\ scale.d > 0]_vars

\* two circles reported, the smaller one first: the scale is 2 * 30 / 1.5 = 40 px/mm
C18_Witness ==
    /\ last.result = "DiscDetected"
    /\ Len(last.circles) = 2
    /\ last.circles[1].r < last.circles[2].r
    /\ calibration_px_per_mm = [n |-> 1600, d |-> 1]

\* ----- C19 -------------------------------------------------------------------------
\* C19: auto_calibrate that finds no circle, or runs with no image loaded,
\* changes nothing of the session.
C19_AutoFailureChangesNothing ==
    [][last'.result \in {"NotFound", "NoImageLoaded"}
          => UNCHANGED <<calibration_px_per_mm, measurement_lines, measure_start,
                         click_points, measure_mode, current_image_path,
                         current_image_cv>>]_vars

\* no circle was found; the scale set before, the ledger, the pending start
\* and the collected calibration point are all still there
C19_Witness ==
    /\ last.result = "NotFound"
    /\ IsCalibrated(calibration_px_per_mm)
    /\ measurement_lines # <<>>
    /\ measure_start # None
    /\ click_points # <<>>

\* ----- C20 -------------------------------------------------------------------------
\* C20: in measure mode a click on the image with no pending start only
\* records it; with a pending start it clears it and appends at most one
\* measurement; the ledger grows only on such an end click, by one entry.
C20_GestureMachine ==
    [][/\ measure_mode
          => \A e \in Events :
                (OnImage(e) /\ OnCanvasClick(e, None))
                   => IF measure_start = None
                      THEN /\ measure_start' = ClickToImage(e)
                           /\ measurement_lines' = measurement_lines
                      ELSE /\ measure_start' = None
                           /\ Len(measurement_lines') <= Len(measurement_lines) + 1
                           /\ SubSeq(measurement_lines', 1, Len(measurement_lines))
                                 = measurement_lines
       /\ Len(measurement_lines') > Len(measurement_lines)
             => /\ Len(measurement_lines') = Len(measurement_lines) + 1
                /\ measure_mode
                /\ measure_start # None
                /\ measure_start' = None]_vars

\* a second gesture is under way: one measurement stored, a new start pending
C20_Witness ==
    /\ measure_mode
    /\ Len(measurement_lines) = 1
    /\ measure_start # None

\* ----- C22 -------------------------------------------------------------------------
\* C22: a pending measurement start exists only in measure mode.
C22_StartOnlyInMeasureMode == measure_start # None => measure_mode

\* a start is pending, in measure mode, on an image that save_metadata renamed
\* and select_folder loaded again
C22_Witness ==
    /\ measure_start # None
    /\ measure_mode
    /\ current_image_cv = [file |-> "PA_OD_20250101.png"]

\* ----- C21 -------------------------------------------------------------------------
\* C21: a DICOM export carries the pixel spacing 1 / pixels_per_mm exactly
\* when a scale is in effect (stored and not zero) and leaves it out
\* otherwise; with a stored scale of zero it divides nothing by zero.
C21_PixelSpacing ==
    last.result = "DicomSaved"
       => /\ last.spacing # [fault |-> "ZeroDivisionError"]
          /\ last.spacing # None <=> IsCalibrated(calibration_px_per_mm)
          /\ last.spacing # None
                => /\ last.spacing.n * calibration_px_per_mm.n
                         = last.spacing.d * calibration_px_per_mm.d
                   /\ last.spacing.n > 0
                   /\ last.spacing.d > 0

\* an export under the scale 40 px/mm: the spacing is 1/40 mm per pixel
C21_Witness ==
    /\ last.result = "DicomSaved"
    /\ calibration_px_per_mm = [n |-> 1600, d |-> 1]
    /\ last.spacing = [n |-> 1, d |-> 1600]

\* ----- C23 -------------------------------------------------------------------------
\* C23: auto_calibrate, start_manual_calibration, complete_manual_calibration
\* and toggle_measure_mode leave the ledger as it was; clear_measurements and
\* toggle_measure_mode leave the scale as it was.
C23_CalibrationSparesLedger ==
    [][/\ (\/ last'.result \in {"DiscDetected", "NotFound", "NoImageLoaded"}
           \/ StartManualCalibration
           \/ measure_mode' # measure_mode)
          => measurement_lines' = measurement_lines
       /\ (~measure_mode /\ Len(click_points) = 1)
          => \A e \in Events, answer \in Answers :
                SecondCalibrationClick(e, answer)
                   => measurement_lines' = measurement_lines
       /\ (last'.result = "Cleared" \/ measure_mode' # measure_mode)
          => calibration_px_per_mm' = calibration_px_per_mm]_vars

\* a manual calibration to 1 px/mm has completed over a ledger that holds a
\* length measured under another scale
C23_Witness ==
    /\ ~measure_mode
    /\ click_points = <<>>
    /\ last = Done
    /\ calibration_px_per_mm = [n |-> 1, d |-> 1]
    /\ Len(measurement_lines) = 1
    /\ measurement_lines[1].mm = [n |-> 1, d |-> 1600]

\* ----- C24 -------------------------------------------------------------------------
\* C24: save_metadata (whatever the answers to the rename question and to the
\* directory dialog), save_json and export_dicom leave the scale and the
\* ledger as they were.
C24_SavingKeepsSession ==
    [][(\/ \E rename \in BOOLEAN, chosen \in BOOLEAN : SaveMetadata(rename, chosen)
        \/ SaveJson
        \/ ExportDicom)
          => /\ calibration_px_per_mm' = calibration_px_per_mm
             /\ measurement_lines' = measurement_lines]_vars

====
